---- MODULE Spec2Model ----
(***************************************************************************)
(* PiKite control-loop core.  Timer (src/src/pikite/core/timer.py) as a    *)
(* state machine over a monotonic clock.  Times are whole clock ticks.     *)
(* An optional value (Python None / a float) is the empty tuple or a       *)
(* one-element tuple.                                                      *)
(***************************************************************************)
EXTENDS Integers, Sequences, FiniteSets, TLC

\* ---- bounds of the model ----
MaxTime == 6
MaxStep == 3
MaxInterval == 2
MaxFires == 7
MaxSessions == 2

MarkNames == {"first_mark", "second_mark"}
IntervalNames == {"runtime"}
\* the names capture_loop polls: those it deletes when it returns, and pan_tilt
PolledNames == IntervalNames \cup {"pan_tilt"}
IntervalValues == 0..MaxInterval
Steps == 1..MaxStep

None == << >>
Some(v) == << v >>

VARIABLES
    now,                 \* time.perf_counter()
    state,               \* Timer.state
    start_time,          \* Timer.start_time
    initial_start_time,  \* Timer.initial_start_time
    paused_time,         \* Timer.paused_time
    accumulated,         \* Timer.accumulated
    marks,               \* Timer.marks
    named_intervals,     \* Timer.named_intervals
    last,                \* the last call: operation, arguments, result, raised
    runTime,             \* history: clock time spent RUNNING since the last successful start()
    marked,              \* history: the marks recorded since the last successful start()
    hist                 \* history: per interval name, the polls since its boundary was created

timerFields == << state, start_time, initial_start_time, paused_time,
                  accumulated, marks, named_intervals >>
timerVars == << now, state, start_time, initial_start_time, paused_time,
                accumulated, marks, named_intervals, last, runTime, marked, hist >>
vars == << now, state, start_time, initial_start_time, paused_time,
           accumulated, marks, named_intervals, last, runTime, marked, hist >>

\* ---- dictionaries ----
EmptyDict == [n \in {} |-> 0]
DictSet(d, k, v) == [n \in DOMAIN d \cup {k} |-> IF n = k THEN v ELSE d[n]]
DictGet(d, k) == IF k \in DOMAIN d THEN Some(d[k]) ELSE None

running == state = "RUNNING"
paused == state = "PAUSED"
stopped == state = "STOPPED"

\* a call as observed by its caller: the operation, its name argument, the value
\* returned, whether it raised, and the state it was made in
Call(op, name, ret, raised) ==
    [op |-> op, name |-> name, ret |-> ret, raised |-> raised,
     pre |-> [state |-> state, intervals |-> Cardinality(DOMAIN named_intervals)]]

ElapsedOfStoppedToo(st, acc, stt, t) ==
    IF st = "RUNNING" THEN Some(acc + (t - stt[1])) ELSE Some(acc)

\* Timer.elapsed, as a function of the fields it reads
ElapsedOf(st, acc, stt, t) ==
    IF st = "RUNNING" THEN Some(acc + (t - stt[1]))
    ELSE IF st = "PAUSED" THEN Some(acc)
    ELSE None

Elapsed == ElapsedOf(state, accumulated, start_time, now)

NoHist == [n \in PolledNames |-> None]

TimerInit ==
    /\ now \in 0..1
    /\ state = "STOPPED"
    /\ start_time = None
    /\ initial_start_time = None
    /\ paused_time = None
    /\ accumulated = 0
    /\ marks = EmptyDict
    /\ named_intervals = EmptyDict
    /\ last = Call("init", "", None, FALSE)
    /\ runTime = 0
    /\ marked = EmptyDict
    /\ hist = NoHist

StartRejectedOnlyRunning == running

\* start(): the guard that rejects the call (timer.py:70)
StartRejected == running \/ paused

PauseAccumulatedOverwrite(acc, t, stt) == t - stt

\* pause(): accumulated += paused_time - start_time (timer.py:121)
PauseAccumulated(acc, t, stt) == acc + (t - stt)

StopReturnAccumulated == Some(accumulated)

\* stop(): the value returned (timer.py:106, 115)
StopReturn == Elapsed

\* stop(): self.marks.clear() (timer.py:111)
StopMarks == EmptyDict

\* stop(): self.named_intervals.clear() (timer.py:112)
StopIntervals == EmptyDict

\* resume(): self.start_time = self.time (timer.py:135)
ResumeStartTime == Some(now)

PollRejectedOnlyStopped == stopped

\* interval_elapsed(): the early return while stopped or paused (timer.py:219)
PollRejected == stopped \/ paused

IntervalDueStrict(e, lit, interval) == e - lit > interval

\* interval_elapsed(): elapsed_time - last_interval_time >= interval (timer.py:236)
IntervalDue(e, lit, interval) == e - lit >= interval

NextBoundarySnap(lit, interval, e, catch_up) == e

NextBoundaryAdvance(lit, interval, e, catch_up) == lit + interval

\* interval_elapsed(): the boundary after a poll that fires (timer.py:237)
NextBoundary(lit, interval, e, catch_up) == IF catch_up THEN lit + interval ELSE e

BoundaryAtStart(e) == 0

\* set_named_interval(): named_intervals[name] = elapsed() (timer.py:202)
BoundaryNow(e) == e

\* elapsed() raises TypeError when RUNNING with start_time None
ElapsedRaises == running /\ start_time = None

\* the clock advances between calls
Tick(d) ==
    /\ now + d <= MaxTime
    /\ now' = now + d
    /\ runTime' = IF running THEN runTime + d ELSE runTime
    /\ last' = Call("tick", "", None, FALSE)
    /\ UNCHANGED << timerFields, marked, hist >>

Start ==
    /\ last' = Call("start", "", None, FALSE)
    /\ IF StartRejected
       THEN UNCHANGED << now, timerFields, runTime, marked, hist >>
       ELSE /\ start_time' = Some(now)
            /\ initial_start_time' = Some(now)
            /\ paused_time' = None
            /\ accumulated' = 0
            /\ marks' = EmptyDict
            /\ named_intervals' = EmptyDict
            /\ state' = "RUNNING"
            /\ runTime' = 0
            /\ marked' = EmptyDict
            /\ hist' = NoHist
            /\ UNCHANGED now

Stop ==
    IF stopped
    THEN /\ last' = Call("stop", "", None, FALSE)
         /\ UNCHANGED << now, timerFields, runTime, marked, hist >>
    ELSE IF ElapsedRaises
    THEN /\ last' = Call("stop", "", None, TRUE)
         /\ UNCHANGED << now, timerFields, runTime, marked, hist >>
    ELSE /\ last' = Call("stop", "", StopReturn, FALSE)
         /\ start_time' = None
         /\ initial_start_time' = None
         /\ paused_time' = None
         /\ accumulated' = 0
         /\ marks' = StopMarks
         /\ named_intervals' = StopIntervals
         /\ state' = "STOPPED"
         /\ hist' = NoHist
         /\ UNCHANGED << now, runTime, marked >>

Pause ==
    IF running
    THEN IF start_time = None
         THEN /\ paused_time' = Some(now)
              /\ last' = Call("pause", "", None, TRUE)
              /\ UNCHANGED << now, state, start_time, initial_start_time,
                              accumulated, marks, named_intervals, runTime, marked, hist >>
         ELSE /\ paused_time' = Some(now)
              /\ accumulated' = PauseAccumulated(accumulated, now, start_time[1])
              /\ start_time' = None
              /\ state' = "PAUSED"
              /\ last' = Call("pause", "", None, FALSE)
              /\ UNCHANGED << now, initial_start_time, marks, named_intervals,
                              runTime, marked, hist >>
    ELSE /\ last' = Call("pause", "", None, FALSE)
         /\ UNCHANGED << now, timerFields, runTime, marked, hist >>

Resume ==
    IF paused
    THEN /\ start_time' = ResumeStartTime
         /\ paused_time' = None
         /\ state' = "RUNNING"
         /\ last' = Call("resume", "", None, FALSE)
         /\ UNCHANGED << now, initial_start_time, accumulated, marks,
                         named_intervals, runTime, marked, hist >>
    ELSE /\ last' = Call("resume", "", None, FALSE)
         /\ UNCHANGED << now, timerFields, runTime, marked, hist >>

ElapsedCall ==
    /\ last' = IF ElapsedRaises THEN Call("elapsed", "", None, TRUE)
               ELSE Call("elapsed", "", Elapsed, FALSE)
    /\ UNCHANGED << now, timerFields, runTime, marked, hist >>

Mark(name) ==
    IF (running \/ paused) /\ ~ElapsedRaises
    THEN /\ marks' = DictSet(marks, name, Elapsed[1])
         /\ marked' = DictSet(marked, name, Elapsed[1])
         /\ last' = Call("mark", name, None, FALSE)
         /\ UNCHANGED << now, state, start_time, initial_start_time, paused_time,
                         accumulated, named_intervals, runTime, hist >>
    ELSE /\ last' = Call("mark", name, None, ElapsedRaises)
         /\ UNCHANGED << now, timerFields, runTime, marked, hist >>

SinceMarkElapsed(e, mark) == e

\* since_mark(): time_since = self.elapsed() - mark (timer.py:188)
SinceMarkValue(e, mark) == e - mark

SinceMark(name) ==
    /\ last' = IF stopped THEN Call("since_mark", name, None, FALSE)
               ELSE IF DictGet(marks, name) = None
                    THEN Call("since_mark", name, None, FALSE)
               ELSE IF ElapsedRaises THEN Call("since_mark", name, None, TRUE)
               ELSE Call("since_mark", name, Some(SinceMarkValue(Elapsed[1], marks[name])), FALSE)
    /\ UNCHANGED << now, timerFields, runTime, marked, hist >>

SetNamedInterval(name) ==
    IF (running \/ paused) /\ ~ElapsedRaises
    THEN /\ named_intervals' = DictSet(named_intervals, name, BoundaryNow(Elapsed[1]))
         /\ hist' = [hist EXCEPT ![name] = None]
         /\ last' = Call("set_named_interval", name, None, FALSE)
         /\ UNCHANGED << now, state, start_time, initial_start_time, paused_time,
                         accumulated, marks, runTime, marked >>
    ELSE /\ last' = Call("set_named_interval", name, None, ElapsedRaises)
         /\ UNCHANGED << now, timerFields, runTime, marked, hist >>

\* history of the polls of one name: the boundary its first poll created (b0),
\* the polls that returned true since (k), the interval and catch_up they all
\* used, and the elapsed times of the first and the last poll that returned true
NewHist(e, interval, catch_up) ==
    Some([b0 |-> e, k |-> 0, interval |-> interval, catch_up |-> catch_up,
          firstFire |-> None, lastFire |-> None])

SamePolicy(h, interval, catch_up) ==
    h # None /\ h[1].interval = interval /\ h[1].catch_up = catch_up

HistAfterPoll(h, interval, catch_up, fired, e) ==
    IF ~SamePolicy(h, interval, catch_up) THEN None
    ELSE IF fired
         THEN Some([h[1] EXCEPT !.k = @ + 1, !.lastFire = Some(e),
                                !.firstFire = IF @ = None THEN Some(e) ELSE @])
    ELSE h

PollCall(interval, name, catch_up, ret) == Call("interval_elapsed", name, ret, FALSE)

IntervalElapsed(interval, name, catch_up) ==
    /\ hist[name] # None => hist[name][1].k < MaxFires
    /\ IF PollRejected
       THEN /\ last' = PollCall(interval, name, catch_up, FALSE)
            /\ UNCHANGED << now, timerFields, runTime, marked, hist >>
       ELSE IF ElapsedRaises
       THEN /\ last' = [PollCall(interval, name, catch_up, FALSE) EXCEPT !.raised = TRUE]
            /\ UNCHANGED << now, timerFields, runTime, marked, hist >>
       ELSE IF DictGet(named_intervals, name) = None
       THEN /\ named_intervals' = DictSet(named_intervals, name, BoundaryNow(Elapsed[1]))
            /\ hist' = [hist EXCEPT ![name] = NewHist(Elapsed[1], interval, catch_up)]
            /\ last' = PollCall(interval, name, catch_up, FALSE)
            /\ UNCHANGED << now, state, start_time, initial_start_time, paused_time,
                            accumulated, marks, runTime, marked >>
       ELSE IF IntervalDue(Elapsed[1], named_intervals[name], interval)
       THEN /\ named_intervals' =
                  [named_intervals EXCEPT ![name] =
                      NextBoundary(@, interval, Elapsed[1], catch_up)]
            /\ hist' = [hist EXCEPT ![name] =
                          HistAfterPoll(@, interval, catch_up, TRUE, Elapsed[1])]
            /\ last' = PollCall(interval, name, catch_up, TRUE)
            /\ UNCHANGED << now, state, start_time, initial_start_time, paused_time,
                            accumulated, marks, runTime, marked >>
       ELSE /\ hist' = [hist EXCEPT ![name] =
                          HistAfterPoll(@, interval, catch_up, FALSE, Elapsed[1])]
            /\ last' = PollCall(interval, name, catch_up, FALSE)
            /\ UNCHANGED << now, timerFields, runTime, marked >>

\* a reset() that leaves a paused timer paused
ResetStateKeeps(st) == st

\* reset(): if self.paused: self.state = RUNNING (timer.py:97-98)
ResetState(st) == IF st = "PAUSED" THEN "RUNNING" ELSE st

\* reset(): self.start_time = self.time if running or paused else None (timer.py:85)
ResetStartTime(st, t) == IF st \in {"RUNNING", "PAUSED"} THEN Some(t) ELSE None

\* reset(): the named intervals; with clear_intervals false each name goes
\* through set_named_interval, which stores elapsed() of the timer as reset
\* so far and does nothing on a stopped timer (timer.py:91-95)
ResetIntervals(st, intervals, stt, t, clear_intervals) ==
    IF clear_intervals THEN EmptyDict
    ELSE IF st = "STOPPED" THEN intervals
    ELSE [n \in DOMAIN intervals |-> BoundaryNow(ElapsedOf(st, 0, stt, t)[1])]

\* Timer.reset(clear_intervals)
TimerReset(clear_intervals) ==
    \E stt \in {ResetStartTime(state, now)} :
        /\ start_time' = stt
        /\ initial_start_time' = stt
        /\ paused_time' = None
        /\ accumulated' = 0
        /\ marks' = EmptyDict
        /\ named_intervals' = ResetIntervals(state, named_intervals, stt, now, clear_intervals)
        /\ state' = ResetState(state)
        /\ last' = Call("reset", "", None, FALSE)
        /\ runTime' = 0
        /\ marked' = EmptyDict
        /\ hist' = NoHist
        /\ UNCHANGED now

\* ---- InputHandler (src/src/pikite/core/input_handler.py) ----

MaxRegistrations == 2

Scopes == {"default", "MENU", "CAPTURE"}
Commands == {"NEXT", "SELECT"}
Sources == {"GPIO", "WEBSOCKET", "SYSTEM"}

\* the callbacks registered: one that returns, one that raises an Exception,
\* and one that switches the scope (as __main__.py:98 does)
Callbacks == {"cb_ok", "cb_raise", "cb_set_scope"}

\* the other members of InputCommand that main() binds (input_handler.py:8-16)
AppCommands == {"START_CAPTURE", "STOP_CAPTURE", "SHUTDOWN", "REBOOT"}
AllCommands == Commands \cup AppCommands

VARIABLES
    listeners,       \* InputHandler._listeners: scope -> command -> list of callbacks
    active_scope,    \* InputHandler._active_scope
    ihLast,          \* the last InputHandler call, its arguments and what it invoked
    registered       \* history: per (scope, command), the callbacks in order of first registration

ihFields == << listeners, active_scope >>
ihVars == << listeners, active_scope, ihLast, registered >>

IHCall(op, scope, command, cb, invoked, raised) ==
    [op |-> op, scope |-> scope, command |-> command, cb |-> cb,
     invoked |-> invoked, raised |-> raised, pre |-> active_scope]

NoRegistrations == [s \in Scopes |-> [c \in AllCommands |-> << >>]]

IHInit ==
    /\ listeners = EmptyDict
    /\ active_scope = "default"
    /\ ihLast = IHCall("init", "", "", "", << >>, FALSE)
    /\ registered = NoRegistrations

Range(seq) == {seq[i] : i \in 1..Len(seq)}

\* defaultdict.__getitem__: a missing key is inserted with the default value
WithScope(ls, scope) ==
    IF scope \in DOMAIN ls THEN ls ELSE DictSet(ls, scope, EmptyDict)

WithCommand(ls, scope, command) ==
    LET l1 == WithScope(ls, scope) IN
    IF command \in DOMAIN l1[scope] THEN l1
    ELSE [l1 EXCEPT ![scope] = DictSet(@, command, << >>)]

LookupScopeDefault(scope) == "default"

\* handle(): the scope whose listeners are consulted (input_handler.py:105)
LookupScope(scope) == scope

\* handle(): self._listeners[self._active_scope].get(command, [])
Lookup(ls, scope, command) ==
    IF scope \in DOMAIN ls /\ command \in DOMAIN ls[scope]
    THEN ls[scope][command] ELSE << >>

NeverDuplicate(list, cb) == FALSE

\* register(): callback in self._listeners[scope][command] (input_handler.py:76)
IsDuplicate(list, cb) == cb \in Range(list)

CaughtNever(exc) == FALSE

\* handle(): except Exception (input_handler.py:122); TypeError is an Exception
Caught(exc) == exc \in {"Exception", "TypeError"}

\* the callbacks main() binds: bound methods of the Menu, functions of
\* power_management and a lambda (__main__.py:83-111)
StartCaptureLambda == "initialize_menu.<lambda>"

\* the lambda the k-th call of capture_loop creates (__main__.py:161)
StopCaptureLambda(k) == "capture_loop.<lambda> " \o ToString(k)
IsStopCaptureLambda(cb) == \E k \in 1..MaxSessions : cb = StopCaptureLambda(k)

\* callback(source=source, **kwargs) (input_handler.py:121): whether the
\* callback's signature has a parameter for the keyword.  increment_element
\* and do_action take self only (lcd_menu.py:156, 170), shutdown and reboot
\* take nothing (power_management.py:11, 27), and both lambdas are written
\* `lambda:` (__main__.py:98, 161)
BindsSource(cb) == cb \in Callbacks

\* what calling the callback with source=... does: the exception it raises
Raised(cb) ==
    IF ~BindsSource(cb) THEN Some("TypeError")
    ELSE IF cb = "cb_raise" THEN Some("Exception") ELSE None

\* the scope the callback passes to set_scope, when its body runs
ScopeSetBy(cb) ==
    IF ~BindsSource(cb) THEN None
    ELSE IF cb = "cb_set_scope" \/ cb = StartCaptureLambda THEN Some("CAPTURE")
    ELSE IF IsStopCaptureLambda(cb) THEN Some("MENU")
    ELSE None

SetScopeDropsOld(ls, old) == [s \in DOMAIN ls \ {old} |-> ls[s]]

\* set_scope(): the listeners table is not touched (input_handler.py:43-49)
SetScopeListeners(ls, old) == ls

\* set_scope(): (input_handler.py:35-49)
ScopeAfterSet(current, scope) == IF scope = current THEN current ELSE scope

\* a dispatch that ends when a callback has switched the scope
RemainingCutOnSwitch(cbs, scope, scope1) == IF scope1 # scope THEN << >> ELSE cbs

\* handle(): the list the for loop goes on with after a callback took the
\* scope from scope to scope1: the one fetched before the loop
\* (input_handler.py:105, 115)
Remaining(cbs, scope, scope1) == cbs

\* handle(): the loop over the callbacks (input_handler.py:115-128), from the
\* i-th on: the scope left active, the callbacks invoked, whether one escaped
RECURSIVE RunCallbacks(_, _, _, _)
RunCallbacks(cbs, i, scope, invoked) ==
    IF i > Len(cbs) THEN [scope |-> scope, invoked |-> invoked, raised |-> FALSE]
    ELSE LET cb == cbs[i]
             scope1 == IF ScopeSetBy(cb) = None THEN scope
                       ELSE ScopeAfterSet(scope, ScopeSetBy(cb)[1])
             log == Append(invoked, cb)
         IN  IF Raised(cb) # None /\ ~Caught(Raised(cb)[1])
             THEN [scope |-> scope1, invoked |-> log, raised |-> TRUE]
             ELSE RunCallbacks(Remaining(cbs, scope, scope1), i + 1, scope1, log)

Registrations(ls) ==
    LET pairs == {<<sc, c>> : sc \in Scopes, c \in Commands}
        RECURSIVE Sum(_)
        Sum(ps) == IF ps = {} THEN 0
                   ELSE LET q == CHOOSE q \in ps : TRUE
                        IN  Len(Lookup(ls, q[1], q[2])) + Sum(ps \ {q})
    IN  Sum(pairs)

SetScope(scope) ==
    /\ active_scope' = ScopeAfterSet(active_scope, scope)
    /\ listeners' = SetScopeListeners(listeners, active_scope)
    /\ ihLast' = IHCall("set_scope", scope, "", "", << >>, FALSE)
    /\ UNCHANGED registered

ClearScope(scope) ==
    /\ listeners' = IF scope \in DOMAIN listeners
                    THEN [listeners EXCEPT ![scope] = EmptyDict]
                    ELSE listeners
    /\ registered' = [registered EXCEPT ![scope] = [c \in AllCommands |-> << >>]]
    /\ ihLast' = IHCall("clear_scope", scope, "", "", << >>, FALSE)
    /\ UNCHANGED active_scope

\* register(): the listeners table after the call (input_handler.py:76-87)
Registering(table, scope, command, cb) ==
    LET ls == WithCommand(table, scope, command)
        list == ls[scope][command]
    IN  IF IsDuplicate(list, cb) THEN ls
        ELSE [ls EXCEPT ![scope][command] = Append(list, cb)]

\* the history of first registrations after the call
Recording(history, scope, command, cb) ==
    IF cb \in Range(history[scope][command]) THEN history
    ELSE [history EXCEPT ![scope][command] = Append(@, cb)]

Register(scope, command, cb) ==
    /\ IsDuplicate(Lookup(listeners, scope, command), cb)
          \/ Registrations(listeners) < MaxRegistrations
    /\ listeners' = Registering(listeners, scope, command, cb)
    /\ registered' = Recording(registered, scope, command, cb)
    /\ ihLast' = IHCall("register", scope, command, cb, << >>, FALSE)
    /\ UNCHANGED active_scope

Handle(command, source) ==
    LET scope == LookupScope(active_scope)
        ls == WithScope(listeners, scope)
        callbacks == Lookup(ls, scope, command)
        run == RunCallbacks(callbacks, 1, active_scope, << >>)
    IN  /\ listeners' = ls
        /\ active_scope' = run.scope
        /\ ihLast' = IHCall("handle", "", command, "", run.invoked, run.raised)
        /\ UNCHANGED registered

\* ---- Menu (src/src/pikite/core/lcd_menu.py) ----

MaxWalk == 3

\* the menu definition file: one record per XML node, children in document order
XmlNode(tag, message, action, value, setting, children) ==
    [tag |-> tag, message |-> message, action |-> action, value |-> value,
     setting |-> setting, children |-> children]

MenuFile ==
    << XmlNode("menu", None, None, None, None, << 2, 3, 4, 5, 6 >>),
       XmlNode("menu_item", Some("Capture Mode"), Some("options"), None, Some("cam_mode"), << 7, 8 >>),
       XmlNode("menu_item", Some("Tools"), Some("submenu"), None, None, << 9, 10, 12, 13, 14, 16 >>),
       XmlNode("menu_item", Some("About"), Some("submenu"), None, None, << 11 >>),
       XmlNode("menu_item", Some("Back"), Some("return"), None, None, << >>),
       XmlNode("menu_item", Some("Extras"), Some("submenu"), None, None, << 15 >>),
       XmlNode("option_item", Some("Mode: Picture"), Some("selectOption"), Some("pic"), None, << >>),
       XmlNode("option_item", Some("Mode: 5"), Some("selectOption"), Some("5"), None, << >>),
       XmlNode("menu_item", Some("Load Defaults"), Some("load_defaults"), None, None, << >>),
       XmlNode("menu_item", Some("Back"), Some("return"), None, None, << >>),
       XmlNode("menu_item", Some("System Info"), Some("display_system_info"), None, None, << >>),
       XmlNode("menu_item", Some("Shutdown"), Some("shutdown"), None, None, << >>),
       XmlNode("menu_item", Some("Reboot"), Some("reboot"), None, None, << >>),
       XmlNode("menu_item", None, None, None, None, << >>),
       XmlNode("option_item", Some("Mode: Video"), Some("selectOption"), Some("vid"), None, << >>),
       XmlNode("menu_item", Some("Wifi"), Some("wifi_setup"), None, None, << >>),
       XmlNode("menu", None, Some("options"), None, Some("pic_interval"), << 18, 19 >>),
       XmlNode("option_item", Some("Interval: 5"), Some("selectOption"), Some("5"), None, << >>),
       XmlNode("menu_item", Some("Reboot"), Some("reboot"), None, None, << >>),
       XmlNode("menu", None, None, None, None, << >>),
       XmlNode("menu_item", Some("Lone"), None, None, None, << >>) >>

\* the root elements of the definition files MENU_FILE can be: a menu of five
\* items, a menu that is itself an options element, an empty menu, a file
\* whose root element is a menu_item
Roots == {1, 17, 20, 21}

\* Menu.root of the Menu the methods below are called on
root == 1

\* element.attrib.get(name, default): the attribute is not there
IsAbsent(attr) == attr = None

\* MenuElement.tag / .action / .value / .setting / .message
Tag(e) == MenuFile[e].tag
Action(e) == IF IsAbsent(MenuFile[e].action) THEN "pass" ELSE MenuFile[e].action[1]
Value(e) == MenuFile[e].value
Setting(e) == MenuFile[e].setting
Message(e) ==
    IF IsAbsent(MenuFile[e].message) THEN "Tag: " \o Tag(e) ELSE MenuFile[e].message[1]

\* element.findall(tag): the direct children with that tag, in document order
FindAll(e, tag) ==
    LET keep(c) == MenuFile[c].tag = tag
    IN  SelectSeq(MenuFile[e].children, keep)

\* MenuElement.options
Options(e) ==
    IF Action(e) = "options" THEN Some(FindAll(e, "option_item")) ELSE None

\* MenuElement.submenu
Submenu(e) ==
    IF Tag(e) = "menu" \/ Action(e) = "submenu" THEN Some(FindAll(e, "menu_item"))
    ELSE None

\* the MenuElement objects the constructor of e creates below e
Built(e) ==
    (IF Options(e) = None THEN {} ELSE Range(Options(e)[1]))
        \cup (IF Submenu(e) = None THEN {} ELSE Range(Submenu(e)[1]))

\* every MenuElement of the tree under e, e included
RECURSIVE Under(_)
Under(e) == {e} \cup UNION {Under(c) : c \in Built(e)}

Elements == UNION {Under(r) : r \in Roots}

\* MenuElement.parent
Parent(e) == IF e \in Roots THEN e ELSE CHOOSE p \in Elements : e \in Built(p)

\* the settings file: the text stored under each key
SettingKeys == {"cam_mode", "pic_interval"}
DefaultConfig == [k \in SettingKeys |-> IF k = "cam_mode" THEN "'pic'" ELSE "5"]

\* Python values: a str, an int or None
PyStr(text) == [type |-> "str", text |-> text]
PyInt(text) == [type |-> "int", text |-> text]
PyNone == [type |-> "NoneType", text |-> "None"]

\* ast.literal_eval of a stored text
LiteralEval(text) ==
    CASE text = "'pic'" -> [raised |-> None, value |-> PyStr("pic")]
      [] text = "5" -> [raised |-> None, value |-> PyInt("5")]
      [] text = "None" -> [raised |-> None, value |-> PyNone]
      [] OTHER -> [raised |-> Some("ValueError"), value |-> PyNone]

\* the attribute value of an element as a Python value
PyValue(e) == IF Value(e) = None THEN PyNone ELSE PyStr(Value(e)[1])

\* str(value)
Str(v) == v.text

\* Settings.get(setting_key)
SettingsGet(cfg, key) ==
    IF key \notin DOMAIN cfg THEN [raised |-> None, value |-> PyNone]
    ELSE LiteralEval(cfg[key])

SettingsSetEvery(cfg, key, v) == [k \in DOMAIN cfg \cup {key} |-> Str(v)]

\* Settings.set(setting_key, value)
SettingsSet(cfg, key, v) == DictSet(cfg, key, Str(v))

\* Settings.load_defaults(): the default file is read over the config
SettingsLoadDefaults(cfg) ==
    [k \in DOMAIN cfg \cup DOMAIN DefaultConfig |->
        IF k \in DOMAIN DefaultConfig THEN DefaultConfig[k] ELSE cfg[k]]

VARIABLES
    current_element,    \* Menu.current_element
    default_element,    \* Menu.default_element
    previous_element,   \* Menu.previous_element
    next_element,       \* Menu.next_element
    config,             \* the settings collaborator's store
    display,            \* the last thing the display collaborator was asked to show
    menuLast,           \* the last Menu call, what it raised and invoked, the call before it
    walk,               \* the run of increments then decrements (or the reverse) under way
    construction        \* the last Menu(...) call made: its file, how it ended

menuVars == << current_element, default_element, previous_element, next_element,
               config, display, menuLast, walk, construction >>

MenuCall(op, raised, calls) ==
    [op |-> op, raised |-> raised, calls |-> calls, pre |-> current_element,
     preConfig |-> config, prior |-> << menuLast.op, menuLast.pre >>]

NoWalk(e) == [start |-> e, first |-> "none", a |-> 0, b |-> 0]

\* list.index(e): the position of e, or no position (ValueError)
IndexOf(list, e) ==
    IF e \in Range(list) THEN Some(CHOOSE i \in 1..Len(list) : list[i] = e) ELSE None

\* list[current_index - 1]: index -1 is the last item
PreviousIndex(idx, len) == IF idx = 1 THEN len ELSE idx - 1

NextIndexClamped(idx, len) == IF idx # len THEN idx + 1 ELSE len

\* list[current_index + 1] if current_index != max_index else list[0]
NextIndex(idx, len) == IF idx # len THEN idx + 1 ELSE 1

\* _get_adjacent_elements(): the list searched for an element with this tag
\* and this parent
AdjacencyOf(tag, parent) ==
    IF tag = "option_item" /\ Options(parent) # None THEN Options(parent)
    ELSE Submenu(parent)

\* _get_adjacent_elements(): the list it searches for the element e
AdjacencyList(e) == AdjacencyOf(Tag(e), Parent(e))

\* _get_adjacent_elements(): the elements around position idx of list l, or
\* ValueError and the old values when list.index found no position
AdjacentAt(l, idx, prev, next) ==
    IF idx = None THEN [raised |-> Some("ValueError"), previous |-> prev, next |-> next]
    ELSE [raised |-> None,
          previous |-> l[PreviousIndex(idx[1], Len(l))],
          next |-> l[NextIndex(idx[1], Len(l))]]

\* _get_adjacent_elements(): with neither list there, nothing is assigned
AdjacentIn(list, e, prev, next) ==
    IF list = None THEN [raised |-> None, previous |-> prev, next |-> next]
    ELSE AdjacentAt(list[1], IndexOf(list[1], e), prev, next)

\* _get_adjacent_elements(): previous_element and next_element for cursor e,
\* prev and next being their values before the call
GetAdjacentElements(e, prev, next) == AdjacentIn(AdjacencyList(e), e, prev, next)

\* _print_menu() after _get_adjacent_elements() ended as adj
PrintMenu(adj, e, shown) ==
    [raised |-> adj.raised, previous |-> adj.previous, next |-> adj.next,
     display |-> IF adj.raised = None THEN Message(e) ELSE shown,
     calls |-> IF adj.raised = None THEN << "print_message" >> ELSE << >>]

\* update_menu() with the cursor on e: adjacent elements, then the display
UpdateMenu(e, prev, next, shown) ==
    PrintMenu(GetAdjacentElements(e, prev, next), e, shown)

\* the Menu with every assignment of Menu.__init__ made
MenuInit ==
    \E first \in {Submenu(root)[1][1]} :
    \E upd \in {UpdateMenu(first, first, first, "")} :
        /\ current_element = first
        /\ default_element = first
        /\ previous_element = upd.previous
        /\ next_element = upd.next
        /\ config = DefaultConfig
        /\ display = upd.display
        /\ menuLast = [op |-> "init", raised |-> None, calls |-> << >>, pre |-> first,
                       preConfig |-> DefaultConfig, prior |-> << "", first >>]
        /\ walk = NoWalk(first)
        /\ construction = None

\* _print_menu() while self.display_controller is not assigned yet, after
\* _get_adjacent_elements() ended as adj
PrintMenuUnassigned(adj) ==
    IF adj.raised # None THEN adj.raised ELSE Some("AttributeError")

\* a Menu(...) call on the file with root element r: what it raised, and
\* current_element = default_element if it got to assign them
Construction(r, raised, first) == [root |-> r, raised |-> raised, current |-> first]

\* Menu.__init__ from the assert on, submenu being root.submenu
ConstructFrom(r, submenu) ==
    IF submenu = None THEN Construction(r, Some("AssertionError"), None)
    ELSE IF submenu[1] = << >> THEN Construction(r, Some("IndexError"), None)
    ELSE Construction(r,
            PrintMenuUnassigned(GetAdjacentElements(submenu[1][1], submenu[1][1],
                                                    submenu[1][1])),
            Some(submenu[1][1]))

\* Menu(display_controller, settings) on the file with root element r; the
\* Menu already there is a different object
MenuConstruct(r) ==
    /\ construction' = Some(ConstructFrom(r, Submenu(r)))
    /\ UNCHANGED << current_element, default_element, previous_element, next_element,
                    config, display, menuLast, walk >>

\* the walk after op ("inc" or "dec") was called with the cursor on e
WalkAfter(w, op, e) ==
    IF w.first = op /\ w.b = 0 /\ w.a < MaxWalk THEN [w EXCEPT !.a = @ + 1]
    ELSE IF w.first \notin {op, "none"} /\ w.b < w.a THEN [w EXCEPT !.b = @ + 1]
    ELSE [start |-> e, first |-> op, a |-> 1, b |-> 0]

IncrementElement ==
    \E upd \in {UpdateMenu(next_element, previous_element, next_element, display)} :
    /\ current_element' = next_element
    /\ previous_element' = upd.previous
    /\ next_element' = upd.next
    /\ display' = upd.display
    /\ menuLast' = MenuCall("increment_element", upd.raised, upd.calls)
    /\ walk' = WalkAfter(walk, "inc", current_element)
    /\ UNCHANGED << default_element, config, construction >>

DecrementElement ==
    \E upd \in {UpdateMenu(previous_element, previous_element, next_element, display)} :
    /\ current_element' = previous_element
    /\ previous_element' = upd.previous
    /\ next_element' = upd.next
    /\ display' = upd.display
    /\ menuLast' = MenuCall("decrement_element", upd.raised, upd.calls)
    /\ walk' = WalkAfter(walk, "dec", current_element)
    /\ UNCHANGED << default_element, config, construction >>

\* the outcome of do_action() before its final update_menu(): what it raised,
\* whether it returned early, the cursor, the settings, the display, the
\* collaborators called
Outcome(raised, early, cursor, cfg, shown, calls) ==
    [raised |-> raised, early |-> early, cursor |-> cursor, config |-> cfg,
     display |-> shown, calls |-> calls]

\* do_action(), case submenu: submenu[0] of a list
SubmenuFirst(e, list) ==
    IF list = << >> THEN Outcome(Some("IndexError"), FALSE, e, config, display, << >>)
    ELSE Outcome(None, FALSE, list[1], config, display, << >>)

\* do_action(), case submenu
SubmenuOutcome(e, submenu) ==
    IF submenu # None THEN SubmenuFirst(e, submenu[1])
    ELSE Outcome(None, TRUE, e, config, display, << >>)

OptionTargetStay(e, opts, setting) == e

\* do_action(), case options: the first option whose value equals the setting
OptionTarget(e, opts, setting) ==
    IF \A i \in 1..Len(opts) : PyValue(opts[i]) # setting THEN e
    ELSE opts[CHOOSE i \in 1..Len(opts) :
                 /\ PyValue(opts[i]) = setting
                 /\ \A j \in 1..(i - 1) : PyValue(opts[j]) # setting]

\* do_action(), case options, settings.get having ended as got
OptionsFound(e, got) ==
    IF got.raised # None
    THEN Outcome(got.raised, FALSE, e, config, display, << "settings.get" >>)
    ELSE Outcome(None, FALSE, OptionTarget(e, Options(e)[1], got.value), config, display,
                 << "settings.get" >>)

\* do_action(), case options
OptionsOutcome(e) ==
    IF Options(e) # None /\ Setting(e) # None
    THEN OptionsFound(e, SettingsGet(config, Setting(e)[1]))
    ELSE Outcome(None, TRUE, e, config, display, << >>)

\* do_action(), case selectOption
SelectOptionOutcome(e, parent) ==
    IF Setting(parent) = None
    THEN Outcome(Some("AttributeError"), FALSE, e, config, display, << "settings.set" >>)
    ELSE Outcome(None, FALSE, parent,
                 SettingsSet(config, Setting(parent)[1], PyValue(e)),
                 display, << "settings.set" >>)

\* a reset() that leaves the cursor where it is
ResetStays(current, dflt) == current

\* reset(): the cursor a Menu on current with default element dflt goes to
Reset(current, dflt) == dflt

\* do_action(), case load_defaults: settings.load_defaults(), then reset()
LoadDefaultsOutcome(e) ==
    Outcome(None, FALSE, Reset(e, default_element), SettingsLoadDefaults(config), display,
            << "settings.load_defaults" >>)

\* a delegation that makes the collaborator call twice
DelegateTwice(e, call, shown) == Outcome(None, FALSE, e, config, shown, << call, call >>)

\* do_action(), cases display_system_info, shutdown and reboot: the one
\* collaborator call of the case
Delegate(e, call, shown) == Outcome(None, FALSE, e, config, shown, << call >>)

\* do_action() up to the final update_menu(), with the cursor on e
ActionOutcome(e) ==
    CASE Action(e) = "submenu" -> SubmenuOutcome(e, Submenu(e))
      [] Action(e) = "options" -> OptionsOutcome(e)
      [] Action(e) = "selectOption" -> SelectOptionOutcome(e, Parent(e))
      [] Action(e) = "return" ->
            Outcome(None, FALSE, Parent(e), config, display, << >>)
      [] Action(e) = "load_defaults" -> LoadDefaultsOutcome(e)
      [] Action(e) = "display_system_info" -> Delegate(e, "display_system_info", "system_info")
      [] Action(e) = "shutdown" -> Delegate(e, "shutdown", display)
      [] Action(e) = "reboot" -> Delegate(e, "reboot", display)
      [] OTHER -> Outcome(None, TRUE, e, config, display, << >>)

DoAction ==
    \E act \in {ActionOutcome(current_element)} :
    \E upd \in {UpdateMenu(act.cursor, previous_element, next_element, act.display)} :
    \E done \in {act.raised # None \/ act.early} :
        /\ current_element' = act.cursor
        /\ config' = act.config
        /\ previous_element' = IF done THEN previous_element ELSE upd.previous
        /\ next_element' = IF done THEN next_element ELSE upd.next
        /\ display' = IF done THEN act.display ELSE upd.display
        /\ menuLast' = MenuCall("do_action",
                                IF done THEN act.raised ELSE upd.raised,
                                IF done THEN act.calls ELSE act.calls \o upd.calls)
        /\ walk' = NoWalk(act.cursor)
        /\ UNCHANGED << default_element, construction >>

\* ---- ButtonController (src/src/pikite/hardware/button_controller.py) ----

\* the commands set_commands is called with: the two pairs of
\* initialize_button_input, and a select command alone (next_command=None)
CommandArgs == { << Some("NEXT"), Some("SELECT") >>,
                 << Some("STOP_CAPTURE"), Some("STOP_CAPTURE") >>,
                 << None, Some("STOP_CAPTURE") >> }

\* the scope set_commands is called with: none, or one initialize_button_input names
ScopeArgs == {None, Some("MENU"), Some("CAPTURE")}

VARIABLES
    next_command,      \* ButtonController.next_command
    select_command,    \* ButtonController.select_command
    scope_commands,    \* ButtonController._scope_commands: scope -> (next, select)
    storedFor,         \* history: scope -> the commands set_commands last stored for it
    buttonLast         \* the last ButtonController call; for a press, what it emitted

buttonVars == << next_command, select_command, scope_commands, storedFor, buttonLast >>

\* a call that is no button press
ButtonCall(op) == [op |-> op, button |-> "", command |-> "", scope |-> "", stored |-> None]

\* a press of button that emitted command, the active scope being scope
\* and stored what set_commands stored for that scope, if anything
ButtonPress(button, command, scope, stored) ==
    [op |-> "press", button |-> button, command |-> command, scope |-> scope,
     stored |-> stored]

\* ButtonController(input_handler), the scope being "default"
ButtonInit ==
    /\ next_command = "NEXT"
    /\ select_command = "SELECT"
    /\ scope_commands = DictSet(EmptyDict, "default", << "NEXT", "SELECT" >>)
    /\ storedFor = EmptyDict
    /\ buttonLast = ButtonCall("init")

\* set_commands(): the pair stored, from the arguments and the existing pair
NewCommands(nextArg, selectArg, existing) ==
    << IF nextArg # None THEN nextArg[1] ELSE existing[1],
       IF selectArg # None THEN selectArg[1] ELSE existing[2] >>

\* set_commands(next_command=, select_command=, scope=)
SetCommands(nextArg, selectArg, scopeArg) ==
    \E target \in {IF scopeArg # None THEN scopeArg[1] ELSE active_scope} :
    \E existing \in {IF target \in DOMAIN scope_commands THEN scope_commands[target]
                     ELSE << next_command, select_command >>} :
    \E new \in {NewCommands(nextArg, selectArg, existing)} :
        /\ scope_commands' = DictSet(scope_commands, target, new)
        /\ next_command' = IF target = active_scope THEN new[1] ELSE next_command
        /\ select_command' = IF target = active_scope THEN new[2] ELSE select_command
        /\ storedFor' = DictSet(storedFor, target, new)
        /\ buttonLast' = ButtonCall("set_commands")

\* sync_scope(new_scope)
SyncScope(new_scope) ==
    /\ IF new_scope \in DOMAIN scope_commands
       THEN /\ next_command' = scope_commands[new_scope][1]
            /\ select_command' = scope_commands[new_scope][2]
            /\ UNCHANGED scope_commands
       ELSE /\ scope_commands' =
                  DictSet(scope_commands, new_scope, << next_command, select_command >>)
            /\ UNCHANGED << next_command, select_command >>
    /\ buttonLast' = ButtonCall("sync_scope")
    /\ UNCHANGED storedFor

\* _on_next_pressed(channel): handle(command=self.next_command, source=GPIO)
OnNextPressed ==
    /\ Handle(next_command, "GPIO")
    /\ buttonLast' = ButtonPress("NEXT", next_command, active_scope,
                                 DictGet(storedFor, active_scope))
    /\ UNCHANGED << next_command, select_command, scope_commands, storedFor >>

\* _on_select_pressed(channel): handle(command=self.select_command, source=GPIO)
OnSelectPressed ==
    /\ Handle(select_command, "GPIO")
    /\ buttonLast' = ButtonPress("SELECT", select_command, active_scope,
                                 DictGet(storedFor, active_scope))
    /\ UNCHANGED << next_command, select_command, scope_commands, storedFor >>

\* ---- the control loop and the GPIO callback thread ----
\* (src/src/pikite/__main__.py, src/src/pikite/hardware/button_controller.py)
\* main() is followed as if initialize_menu returned its Menu: the threads
\* and what they touch do not depend on the menu.

VARIABLES
    loopPc,           \* where the thread running main() is
    gpioPc,           \* where the thread running the GPIO edge callbacks is
    gpioCommand,      \* the command the callback passed to handle()
    gpioCallbacks     \* handle() on the GPIO thread: the callbacks still to invoke

threadVars == << loopPc, gpioPc, gpioCommand, gpioCallbacks >>

ThreadInit ==
    /\ loopPc = "main"
    /\ gpioPc = "idle"
    /\ gpioCommand = ""
    /\ gpioCallbacks = << >>

\* main(): timer.start()
MainStart ==
    /\ loopPc = "main"
    /\ Start
    /\ loopPc' = "initialize_menu"
    /\ UNCHANGED << gpioPc, gpioCommand, gpioCallbacks >>

\* initialize_menu(): input_handler.set_scope("MENU")
MainSetScope ==
    /\ loopPc = "initialize_menu"
    /\ SetScope("MENU")
    /\ loopPc' = "register"
    /\ UNCHANGED << gpioPc, gpioCommand, gpioCallbacks >>

\* initialize_menu(): input_handler.register(scope="MENU", ...)
MainRegister(command, cb) ==
    /\ loopPc = "register"
    /\ Register("MENU", command, cb)
    /\ UNCHANGED threadVars

\* main(): the application loop is entered
MainLoop ==
    /\ loopPc = "register"
    /\ loopPc' = "sleep"
    /\ UNCHANGED << gpioPc, gpioCommand, gpioCallbacks >>

\* main(): await asyncio.sleep(0.1) returns
LoopWake ==
    /\ loopPc = "sleep"
    /\ loopPc' = "check"
    /\ UNCHANGED << gpioPc, gpioCommand, gpioCallbacks >>

\* main(): the test of input_handler.active_scope, read as the attribute
\* _active_scope that InputHandler has; capture_loop is entered when it is
\* CAPTURE
LoopCheck ==
    /\ loopPc = "check"
    /\ loopPc' = IF active_scope = "CAPTURE" THEN "capture" ELSE "sleep"
    /\ UNCHANGED << gpioPc, gpioCommand, gpioCallbacks >>

\* capture_loop(): one turn of while active_scope == "CAPTURE", polling the
\* runtime interval; capture_loop returns when the scope is another
CaptureIteration ==
    /\ loopPc = "capture"
    /\ IF active_scope = "CAPTURE"
       THEN IntervalElapsed(1, "runtime", TRUE) /\ UNCHANGED loopPc
       ELSE loopPc' = "sleep" /\ UNCHANGED timerVars
    /\ UNCHANGED << gpioPc, gpioCommand, gpioCallbacks >>

\* a button edge: the GPIO thread enters _on_next_pressed / _on_select_pressed
\* and calls handle() with the button's command; edges are detected from
\* initialize_button_input on, which main() reaches after timer.start()
GpioEdge(command) ==
    /\ loopPc # "main"
    /\ gpioPc = "idle"
    /\ gpioPc' = "handle"
    /\ gpioCommand' = command
    /\ UNCHANGED << loopPc, gpioCallbacks >>

\* handle() on the GPIO thread: the callbacks of the active scope are looked up
GpioLookup ==
    \E ls \in {WithScope(listeners, LookupScope(active_scope))} :
    \E callbacks \in {Lookup(ls, LookupScope(active_scope), gpioCommand)} :
        /\ gpioPc = "handle"
        /\ listeners' = ls
        /\ gpioCallbacks' = callbacks
        /\ gpioPc' = IF callbacks = << >> THEN "idle" ELSE "callbacks"
        /\ UNCHANGED << loopPc, gpioCommand, active_scope, ihLast, registered >>

\* handle() on the GPIO thread: the next callback is invoked
GpioCallback ==
    \E cb \in {gpioCallbacks[i] : i \in {1} \cap DOMAIN gpioCallbacks} :
    \E escaped \in {Raised(cb) # None /\ ~Caught(Raised(cb)[1])} :
        /\ gpioPc = "callbacks"
        /\ active_scope' = IF ScopeSetBy(cb) = None THEN active_scope
                           ELSE ScopeAfterSet(active_scope, ScopeSetBy(cb)[1])
        /\ gpioCallbacks' = IF escaped THEN << >> ELSE Tail(gpioCallbacks)
        /\ gpioPc' = IF escaped \/ Len(gpioCallbacks) = 1 THEN "idle" ELSE "callbacks"
        /\ UNCHANGED << loopPc, gpioCommand, listeners, ihLast, registered >>


\* ---- the application: bindings and capture sessions (src/src/pikite/__main__.py) ----
\* capture_loop() is followed as if InputHandler.active_scope read
\* _active_scope and the registrations of InputCommand.PAN and
\* InputCommand.TILT (names the enum does not define) were passed.

VARIABLES
    session,      \* history: the calls of capture_loop() so far
    firstPoll     \* history: per interval name, what its first poll of this session returned

appVars == << session, firstPoll >>

NoFirstPoll == [n \in PolledNames |-> None]

AppInit ==
    /\ session = 0
    /\ firstPoll = NoFirstPoll

\* initialize_menu(): the registrations in scope MENU (__main__.py:83-111)
MenuBindings ==
    << << "NEXT", "Menu.increment_element" >>,
       << "SELECT", "Menu.do_action" >>,
       << "START_CAPTURE", StartCaptureLambda >>,
       << "SHUTDOWN", "shutdown" >>,
       << "REBOOT", "reboot" >> >>

RECURSIVE RegisteringAll(_, _, _)
RegisteringAll(table, scope, bindings) ==
    IF bindings = << >> THEN table
    ELSE RegisteringAll(Registering(table, scope, Head(bindings)[1], Head(bindings)[2]),
                        scope, Tail(bindings))

RECURSIVE RecordingAll(_, _, _)
RecordingAll(history, scope, bindings) ==
    IF bindings = << >> THEN history
    ELSE RecordingAll(Recording(history, scope, Head(bindings)[1], Head(bindings)[2]),
                      scope, Tail(bindings))

\* initialize_menu(): set_scope("MENU"), then the registrations
InitializeMenu ==
    /\ loopPc = "initialize_menu"
    /\ active_scope' = ScopeAfterSet(active_scope, "MENU")
    /\ listeners' = RegisteringAll(SetScopeListeners(listeners, active_scope),
                                   "MENU", MenuBindings)
    /\ registered' = RecordingAll(registered, "MENU", MenuBindings)
    /\ ihLast' = IHCall("register", "MENU", "REBOOT", "reboot", << >>, FALSE)
    /\ loopPc' = "sleep"
    /\ UNCHANGED << gpioPc, gpioCommand, gpioCallbacks >>

\* handle() with the callbacks of main(): a callback whose call binds runs
\* its body, the Menu method it is bound to
MenuHandle(command, source) ==
    /\ Handle(command, source)
    /\ \E ran \in {{cb \in Range(ihLast'.invoked) : BindsSource(cb)}} :
          IF "Menu.increment_element" \in ran THEN IncrementElement
          ELSE IF "Menu.do_action" \in ran THEN DoAction
          ELSE UNCHANGED menuVars

\* pan_tilt_interval, in clock ticks (__main__.py:149)
PanTiltInterval == 2

\* the names deleted after the loop (__main__.py:220-223)
DeletedNames == {"runtime"}

\* capture_loop() up to its while loop: the mark and the registration of a
\* new lambda for STOP_CAPTURE (__main__.py:129, 158-162)
CaptureLoopEnter ==
    \E lambda \in {StopCaptureLambda(session + 1)} :
        /\ loopPc = "capture"
        /\ session < MaxSessions
        /\ Mark("capture_loop_start")
        /\ session' = session + 1
        /\ firstPoll' = NoFirstPoll
        /\ listeners' = Registering(listeners, "CAPTURE", "STOP_CAPTURE", lambda)
        /\ registered' = Recording(registered, "CAPTURE", "STOP_CAPTURE", lambda)
        /\ ihLast' = IHCall("register", "CAPTURE", "STOP_CAPTURE", lambda, << >>, FALSE)
        /\ loopPc' = "while"
        /\ UNCHANGED << active_scope, gpioPc, gpioCommand, gpioCallbacks >>

\* capture_loop(): the test of the while loop (__main__.py:184) and, when it
\* fails, the del statements after the loop (220-223), which raise KeyError
\* for a name that was never polled
CaptureLoopTest ==
    /\ loopPc = "while"
    /\ IF active_scope = "CAPTURE"
       THEN loopPc' = "runtime" /\ UNCHANGED timerVars
       ELSE IF DeletedNames \subseteq DOMAIN named_intervals
       THEN /\ named_intervals' =
                  [n \in DOMAIN named_intervals \ DeletedNames |-> named_intervals[n]]
            /\ hist' = [n \in PolledNames |-> IF n \in DeletedNames THEN None ELSE hist[n]]
            /\ loopPc' = "sleep"
            /\ UNCHANGED << now, state, start_time, initial_start_time, paused_time,
                            accumulated, marks, last, runTime, marked >>
       ELSE loopPc' = "KeyError" /\ UNCHANGED timerVars
    /\ UNCHANGED << gpioPc, gpioCommand, gpioCallbacks, appVars >>

\* capture_loop(): one poll of the loop body (__main__.py:185, 216)
CapturePoll(name, interval, then) ==
    /\ loopPc = name
    /\ IntervalElapsed(interval, name, TRUE)
    /\ firstPoll' = IF firstPoll[name] = None
                    THEN [firstPoll EXCEPT ![name] = Some(last'.ret)]
                    ELSE firstPoll
    /\ loopPc' = then
    /\ UNCHANGED << gpioPc, gpioCommand, gpioCallbacks, session >>

\* ---- PanServo (src/src/pikite/hardware/servo_controller.py) ----
\* In these actions the Timer is PanServo.timer, constructed with the servo.

VARIABLES
    servoPc,       \* where the caller of rotate() is: idle, or in the wait loop
    servo_speed,   \* PanServo.speed, in percent of full speed
    direction,     \* PanServo.direction
    end_time,      \* rotate(): end_time
    rotation       \* history: the last rotate() call, when it was made and when it halted

servoVars == << servoPc, servo_speed, direction, end_time, rotation >>

\* speeds in percent of full speed; degrees
Speeds == {0, 50, 100}
Directions == {"CW", "CCW"}
Degrees == {-90, 360, 720}

\* PanServo.rotation_time: clock ticks for 360 degrees at full speed
rotation_time == 1

ServoInit ==
    /\ servoPc = "idle"
    /\ servo_speed = 0
    /\ direction = "CW"
    /\ end_time = None
    /\ rotation = [speed |-> 0, degrees |-> 0, at |-> 0, duration |-> 0, halted |-> None]

\* rotate(): duration = (degrees / 360) * (self.rotation_time / speed) if speed > 0 else 0.0
Duration(speed, degrees) ==
    IF speed > 0 THEN (degrees * rotation_time * 100) \div (360 * speed) ELSE 0

\* rotate(): up to the wait loop (servo_controller.py:267-278)
Rotate(speed, dir, degrees) ==
    /\ servoPc = "idle"
    /\ IF degrees < 0
       THEN /\ servo_speed' = 0
            /\ rotation' = [speed |-> speed, degrees |-> degrees, at |-> now,
                            duration |-> 0, halted |-> Some(now)]
            /\ UNCHANGED << timerVars, servoPc, direction, end_time >>
       ELSE /\ Start
            /\ end_time' = Some(start_time'[1] + Duration(speed, degrees))
            /\ servo_speed' = speed
            /\ direction' = dir
            /\ servoPc' = "rotating"
            /\ rotation' = [speed |-> speed, degrees |-> degrees, at |-> now,
                            duration |-> Duration(speed, degrees), halted |-> None]

\* rotate(): the wait loop finds remaining <= 0 and halts (279-288)
RotateHalt ==
    /\ servoPc = "rotating"
    /\ end_time[1] - now <= 0
    /\ servo_speed' = 0
    /\ servoPc' = "idle"
    /\ rotation' = [rotation EXCEPT !.halted = Some(now)]
    /\ UNCHANGED << timerVars, direction, end_time >>

\* the clock while rotate() waits: the loop looks at it every 5 ms, so it
\* does not pass end_time unseen
ServoTick(d) ==
    /\ servoPc = "rotating" => now + d <= end_time[1]
    /\ Tick(d)
    /\ UNCHANGED servoVars

\* ---- specifications ----

\* every component as constructed
Init == TimerInit /\ IHInit /\ MenuInit /\ ButtonInit /\ ThreadInit /\ AppInit /\ ServoInit

otherThanTimer == << ihVars, menuVars, buttonVars, threadVars, appVars, servoVars >>
otherThanInput == << timerVars, menuVars, buttonVars, threadVars, appVars, servoVars >>
otherThanMenu == << timerVars, ihVars, buttonVars, threadVars, appVars, servoVars >>
otherThanButton == << timerVars, ihVars, menuVars, threadVars, appVars, servoVars >>
otherThanPress == << timerVars, menuVars, threadVars, appVars, servoVars >>
allVars == << timerVars, ihVars, menuVars, buttonVars, threadVars, appVars, servoVars >>

\* the stopwatch, its marks and directly set boundaries
TimerNext ==
    \/ (\E d \in Steps : Tick(d)) /\ UNCHANGED otherThanTimer
    \/ Start /\ UNCHANGED otherThanTimer
    \/ Stop /\ UNCHANGED otherThanTimer
    \/ Pause /\ UNCHANGED otherThanTimer
    \/ Resume /\ UNCHANGED otherThanTimer
    \/ ElapsedCall /\ UNCHANGED otherThanTimer
    \/ (\E n \in MarkNames : Mark(n)) /\ UNCHANGED otherThanTimer
    \/ (\E n \in MarkNames : SinceMark(n)) /\ UNCHANGED otherThanTimer
    \/ (\E n \in IntervalNames : SetNamedInterval(n)) /\ UNCHANGED otherThanTimer

TimerSpec == Init /\ [][TimerNext]_allVars

\* the stopwatch and its named intervals, polled
IntervalNext ==
    \/ (\E d \in Steps : Tick(d)) /\ UNCHANGED otherThanTimer
    \/ Start /\ UNCHANGED otherThanTimer
    \/ Stop /\ UNCHANGED otherThanTimer
    \/ Pause /\ UNCHANGED otherThanTimer
    \/ Resume /\ UNCHANGED otherThanTimer
    \/ (\E n \in IntervalNames : SetNamedInterval(n)) /\ UNCHANGED otherThanTimer
    \/ (\E i \in IntervalValues, n \in IntervalNames, c \in BOOLEAN :
          IntervalElapsed(i, n, c)) /\ UNCHANGED otherThanTimer

IntervalSpec == Init /\ [][IntervalNext]_allVars

\* the stopwatch with reset
ResetNext ==
    \/ Tick(1) /\ UNCHANGED otherThanTimer
    \/ Start /\ UNCHANGED otherThanTimer
    \/ Stop /\ UNCHANGED otherThanTimer
    \/ Pause /\ UNCHANGED otherThanTimer
    \/ Resume /\ UNCHANGED otherThanTimer
    \/ (\E c \in BOOLEAN : TimerReset(c)) /\ UNCHANGED otherThanTimer
    \/ Mark("first_mark") /\ UNCHANGED otherThanTimer
    \/ (\E n \in IntervalNames : SetNamedInterval(n)) /\ UNCHANGED otherThanTimer
    \/ (\E n \in IntervalNames : IntervalElapsed(1, n, TRUE)) /\ UNCHANGED otherThanTimer

ResetSpec == Init /\ [][ResetNext]_allVars

\* the input dispatcher
InputNext ==
    \/ (\E sc \in Scopes : SetScope(sc)) /\ UNCHANGED otherThanInput
    \/ (\E sc \in Scopes : ClearScope(sc)) /\ UNCHANGED otherThanInput
    \/ (\E sc \in Scopes, c \in Commands, cb \in Callbacks : Register(sc, c, cb))
          /\ UNCHANGED otherThanInput
    \/ (\E c \in Commands, src \in Sources : Handle(c, src)) /\ UNCHANGED otherThanInput

InputSpec == Init /\ [][InputNext]_allVars

\* the menu cursor
MenuNext ==
    \/ IncrementElement /\ UNCHANGED otherThanMenu
    \/ DecrementElement /\ UNCHANGED otherThanMenu
    \/ DoAction /\ UNCHANGED otherThanMenu
    \/ \E r \in Roots : MenuConstruct(r) /\ UNCHANGED otherThanMenu

MenuSpec == Init /\ [][MenuNext]_allVars

\* the buttons, their command mappings and the scope
ButtonNext ==
    \/ (\E sc \in Scopes : SetScope(sc)) /\ UNCHANGED otherThanInput
    \/ (\E a \in CommandArgs, sc \in ScopeArgs : SetCommands(a[1], a[2], sc))
          /\ UNCHANGED otherThanButton
    \/ (\E sc \in Scopes : SyncScope(sc)) /\ UNCHANGED otherThanButton
    \/ OnNextPressed /\ UNCHANGED otherThanPress
    \/ OnSelectPressed /\ UNCHANGED otherThanPress

ButtonSpec == Init /\ [][ButtonNext]_allVars

\* the thread of main() and the thread of the GPIO callbacks, interleaved
DispatchNext ==
    \/ MainStart /\ UNCHANGED << ihVars, menuVars, buttonVars, appVars, servoVars >>
    \/ MainSetScope /\ UNCHANGED << timerVars, menuVars, buttonVars, appVars, servoVars >>
    \/ (\E c \in Commands, cb \in Callbacks : MainRegister(c, cb))
          /\ UNCHANGED << timerVars, menuVars, buttonVars, appVars, servoVars >>
    \/ MainLoop /\ UNCHANGED << timerVars, ihVars, menuVars, buttonVars, appVars, servoVars >>
    \/ LoopWake /\ UNCHANGED << timerVars, ihVars, menuVars, buttonVars, appVars, servoVars >>
    \/ LoopCheck /\ UNCHANGED << timerVars, ihVars, menuVars, buttonVars, appVars, servoVars >>
    \/ CaptureIteration /\ UNCHANGED << ihVars, menuVars, buttonVars, appVars, servoVars >>
    \/ (\E d \in Steps : Tick(d)) /\ UNCHANGED otherThanTimer
    \/ GpioEdge(next_command) /\ UNCHANGED << timerVars, ihVars, menuVars, buttonVars, appVars, servoVars >>
    \/ GpioEdge(select_command) /\ UNCHANGED << timerVars, ihVars, menuVars, buttonVars, appVars, servoVars >>
    \/ GpioLookup /\ UNCHANGED << timerVars, menuVars, buttonVars, appVars, servoVars >>
    \/ GpioCallback /\ UNCHANGED << timerVars, menuVars, buttonVars, appVars, servoVars >>

DispatchSpec == Init /\ [][DispatchNext]_allVars

\* main() with its bindings and the commands handled; handle() and
\* set_scope() are called by whoever holds the handler
BindingsNext ==
    \/ MainStart /\ UNCHANGED << ihVars, menuVars, buttonVars, appVars, servoVars >>
    \/ InitializeMenu /\ UNCHANGED << timerVars, menuVars, buttonVars, appVars, servoVars >>
    \/ LoopWake /\ UNCHANGED << timerVars, ihVars, menuVars, buttonVars, appVars, servoVars >>
    \/ LoopCheck /\ UNCHANGED << timerVars, ihVars, menuVars, buttonVars, appVars, servoVars >>
    \/ CaptureLoopEnter /\ UNCHANGED << menuVars, buttonVars, servoVars >>
    \/ CaptureLoopTest /\ UNCHANGED << ihVars, menuVars, buttonVars, servoVars >>
    \/ CapturePoll("runtime", 1, "pan_tilt")
          /\ UNCHANGED << ihVars, menuVars, buttonVars, servoVars >>
    \/ CapturePoll("pan_tilt", PanTiltInterval, "while")
          /\ UNCHANGED << ihVars, menuVars, buttonVars, servoVars >>
    \/ (\E sc \in {"MENU", "CAPTURE"} : SetScope(sc)) /\ UNCHANGED otherThanInput
    \/ (\E c \in AllCommands : MenuHandle(c, "GPIO"))
          /\ UNCHANGED << timerVars, buttonVars, threadVars, appVars, servoVars >>

BindingsSpec == Init /\ [][BindingsNext]_allVars

\* main() and its capture sessions as the clock advances
CaptureNext ==
    \/ MainStart /\ UNCHANGED << ihVars, menuVars, buttonVars, appVars, servoVars >>
    \/ InitializeMenu /\ UNCHANGED << timerVars, menuVars, buttonVars, appVars, servoVars >>
    \/ LoopWake /\ UNCHANGED << timerVars, ihVars, menuVars, buttonVars, appVars, servoVars >>
    \/ LoopCheck /\ UNCHANGED << timerVars, ihVars, menuVars, buttonVars, appVars, servoVars >>
    \/ CaptureLoopEnter /\ UNCHANGED << menuVars, buttonVars, servoVars >>
    \/ CaptureLoopTest /\ UNCHANGED << ihVars, menuVars, buttonVars, servoVars >>
    \/ CapturePoll("runtime", 1, "pan_tilt")
          /\ UNCHANGED << ihVars, menuVars, buttonVars, servoVars >>
    \/ CapturePoll("pan_tilt", PanTiltInterval, "while")
          /\ UNCHANGED << ihVars, menuVars, buttonVars, servoVars >>
    \/ (\E sc \in {"MENU", "CAPTURE"} : SetScope(sc)) /\ UNCHANGED otherThanInput
    \/ (\E d \in Steps : Tick(d)) /\ UNCHANGED otherThanTimer

CaptureSpec == Init /\ [][CaptureNext]_allVars

\* rotate() called again and again on one PanServo
ServoNext ==
    \/ (\E sp \in Speeds, dir \in Directions, dg \in Degrees : Rotate(sp, dir, dg))
          /\ UNCHANGED << ihVars, menuVars, buttonVars, threadVars, appVars >>
    \/ RotateHalt /\ UNCHANGED << ihVars, menuVars, buttonVars, threadVars, appVars >>
    \/ (\E d \in Steps : ServoTick(d))
          /\ UNCHANGED << ihVars, menuVars, buttonVars, threadVars, appVars >>

ServoSpec == Init /\ [][ServoNext]_allVars

\* ---- the stopwatch ----

IsSome(x) == x # None

\* C1: over any sequence of start, pause, resume calls with the clock advancing
\* between them, elapsed() and the value stop() returns equal the clock time
\* spent RUNNING since the last successful start(); paused time is not counted.
C1_ElapsedIsRunningTime ==
    /\ state # "STOPPED" => Elapsed = Some(runTime)
    /\ (last.op = "elapsed" /\ last.pre.state # "STOPPED") => last.ret = Some(runTime)
    /\ (last.op = "stop" /\ last.pre.state # "STOPPED") => last.ret = Some(runTime)

\* C1 witness: elapsed() on a timer that ran, was paused while the clock
\* advanced, was resumed and ran again: less than the time since start()
C1_Witness ==
    /\ last.op = "elapsed"
    /\ state = "RUNNING"
    /\ accumulated > 0
    /\ now > start_time[1]
    /\ last.ret = Some(runTime)
    /\ runTime < now - initial_start_time[1]

\* C2: start, pause, resume, stop called outside their source state raise
\* nothing and leave state, accumulated, start_time, marks and named_intervals
\* unchanged; the state changes only along STOPPED->RUNNING (start),
\* RUNNING->PAUSED (pause), PAUSED->RUNNING (resume), RUNNING/PAUSED->STOPPED (stop).
C2_Step ==
    LET frame == UNCHANGED << state, accumulated, start_time, marks, named_intervals >>
        ops == {"start", "pause", "resume", "stop"}
    IN  /\ last'.op \in ops => ~last'.raised
        /\ (last'.op = "start" /\ state # "STOPPED") => frame
        /\ (last'.op = "pause" /\ state # "RUNNING") => frame
        /\ (last'.op = "resume" /\ state # "PAUSED") => frame
        /\ (last'.op = "stop" /\ state = "STOPPED") => frame
        /\ state' # state =>
              \/ last'.op = "start" /\ state = "STOPPED" /\ state' = "RUNNING"
              \/ last'.op = "pause" /\ state = "RUNNING" /\ state' = "PAUSED"
              \/ last'.op = "resume" /\ state = "PAUSED" /\ state' = "RUNNING"
              \/ last'.op = "stop" /\ state # "STOPPED" /\ state' = "STOPPED"

C2_InvalidCallsAreNoOps == [][C2_Step]_vars

\* C2 witness: start() was called on a paused timer holding accumulated time,
\* a mark and a boundary, and the timer is still paused
C2_Witness ==
    /\ last.op = "start"
    /\ last.pre.state = "PAUSED"
    /\ state = "PAUSED"
    /\ accumulated > 0
    /\ DOMAIN marks # {}
    /\ DOMAIN named_intervals # {}

\* C3: elapsed() returns a value iff the state is not STOPPED; while PAUSED it
\* equals accumulated, and it returns the same value however far the clock advances.
C3_Step ==
    /\ last'.op = "elapsed" =>
          /\ ~last'.raised
          /\ IsSome(last'.ret) <=> state # "STOPPED"
          /\ state = "PAUSED" => last'.ret = Some(accumulated)
    /\ (state = "PAUSED" /\ state' = "PAUSED") => Elapsed' = Elapsed

C3_ElapsedDefinedAndFrozen == [][C3_Step]_vars

\* C3 witness: elapsed() on a timer paused with time accumulated, after the
\* clock moved on since the pause
C3_Witness ==
    /\ last.op = "elapsed"
    /\ state = "PAUSED"
    /\ last.ret = Some(accumulated)
    /\ accumulated > 0
    /\ now > paused_time[1]

\* C4: stop() on a RUNNING or PAUSED timer returns the value elapsed() had at
\* the call and leaves the timer STOPPED, accumulated 0, start_time undefined,
\* marks and named_intervals empty; stop() on a STOPPED timer returns none.
C4_Step ==
    last'.op = "stop" =>
        IF state # "STOPPED"
        THEN /\ last'.ret = Elapsed
             /\ IsSome(last'.ret)
             /\ state' = "STOPPED"
             /\ accumulated' = 0
             /\ start_time' = None
             /\ marks' = EmptyDict
             /\ named_intervals' = EmptyDict
        ELSE last'.ret = None

C5_MarksSurviveStop ==
    (last.op = "stop" /\ last.pre.state # "STOPPED") =>
        \A n \in DOMAIN marked : n \in DOMAIN marks /\ marks[n] = marked[n]

\* ---- named intervals ----

\* the polls of name n so far all used one interval > 0 and one catch_up
Tracked(n, catch_up) ==
    /\ IsSome(hist[n])
    /\ hist[n][1].catch_up = catch_up
    /\ hist[n][1].interval > 0

IsPoll(c) == c.op = "interval_elapsed"

\* C6: for a name with no recorded boundary, interval_elapsed(interval, name)
\* on a RUNNING timer returns false and records named_intervals[name] =
\* elapsed() at that call, whatever the interval.
C6_Step ==
    (IsPoll(last') /\ state = "RUNNING" /\ last'.name \notin DOMAIN named_intervals) =>
        /\ last'.ret = FALSE
        /\ ~last'.raised
        /\ last'.name \in DOMAIN named_intervals'
        /\ Some(named_intervals'[last'.name]) = Elapsed

C6_FirstPollNeverFires == [][C6_Step]_vars

\* C6 witness: the first poll of a name, with interval 0 and the timer already
\* running for a while, returned false and set the boundary to the elapsed time
C6_Witness ==
    /\ IsPoll(last)
    /\ last.pre.state = "RUNNING"
    /\ last.pre.intervals = 0
    /\ last.ret = FALSE
    /\ IsSome(hist[last.name])
    /\ hist[last.name][1].interval = 0
    /\ Elapsed[1] > 0
    /\ named_intervals[last.name] = Elapsed[1]

\* C7: with catch_up and a fixed interval > 0, after any sequence of polls
\* named_intervals[name] = b0 + k*interval (b0 the boundary of the first poll,
\* k the polls that returned true), and the boundary never exceeds elapsed().
C7_BoundaryIsMultiple ==
    \A n \in IntervalNames :
        Tracked(n, TRUE) =>
            /\ n \in DOMAIN named_intervals
            /\ named_intervals[n] = hist[n][1].b0 + hist[n][1].k * hist[n][1].interval
            /\ IsSome(Elapsed)
            /\ named_intervals[n] <= Elapsed[1]
            /\ hist[n][1].k <= (Elapsed[1] - hist[n][1].b0) \div hist[n][1].interval

\* C7 witness: two polls fired late, the boundary is two intervals past a
\* first boundary that was not 0, and behind the elapsed time
C7_Witness ==
    \E n \in IntervalNames :
        /\ Tracked(n, TRUE)
        /\ hist[n][1].k >= 2
        /\ hist[n][1].b0 > 0
        /\ named_intervals[n] < Elapsed[1]
        /\ IsPoll(last) /\ last.ret = TRUE

\* C8: with catch_up no period is lost: when a poll of an existing boundary
\* returns false at elapsed time t on a RUNNING timer, the polls that returned
\* true so far number floor((t - b0)/interval).
C8_NoPeriodLost ==
    (IsPoll(last) /\ last.ret = FALSE /\ state = "RUNNING" /\ Tracked(last.name, TRUE)) =>
        hist[last.name][1].k =
            (Elapsed[1] - hist[last.name][1].b0) \div hist[last.name][1].interval

\* C8 witness: after a gap of two whole intervals two polls at one elapsed
\* time fired, one for each missed period, and the next poll returned false
C8_Witness ==
    /\ IsPoll(last) /\ last.ret = FALSE /\ state = "RUNNING"
    /\ Tracked(last.name, TRUE)
    /\ hist[last.name][1].k = 2
    /\ hist[last.name][1].firstFire = Elapsed
    /\ hist[last.name][1].lastFire = Elapsed
    /\ Elapsed[1] - hist[last.name][1].b0 = 2 * hist[last.name][1].interval

\* C9: without catch_up a poll that returns true sets named_intervals[name] to
\* the elapsed time of that poll: two polls that return true are at least
\* interval apart, and a gap of several intervals fires once.
C9_Step ==
    (IsPoll(last') /\ last'.ret = TRUE /\ Tracked(last'.name, FALSE)
        /\ IsSome(hist'[last'.name])) =>
        LET h == hist[last'.name][1] IN
        /\ Some(named_intervals'[last'.name]) = Elapsed
        /\ IsSome(h.lastFire) => Elapsed[1] - h.lastFire[1] >= h.interval
        /\ Elapsed' = Elapsed
        /\ ~IntervalDue(Elapsed'[1], named_intervals'[last'.name], h.interval)

C9_SnapSkipsMissedPeriods == [][C9_Step]_vars

\* C9 witness: the second firing poll of a name, made three or more intervals
\* after its first boundary
C9_Witness ==
    /\ IsPoll(last) /\ last.ret = TRUE
    /\ Tracked(last.name, FALSE)
    /\ hist[last.name][1].k = 2
    /\ (Elapsed[1] - hist[last.name][1].b0) \div hist[last.name][1].interval >= 3
    /\ named_intervals[last.name] = Elapsed[1]

\* C10: interval_elapsed called while STOPPED or PAUSED returns false and
\* changes nothing, creating no boundary; a poll on a RUNNING timer that
\* returns false for an existing boundary changes nothing either.
C10_Step ==
    IsPoll(last') =>
        /\ state # "RUNNING" =>
              /\ last'.ret = FALSE
              /\ ~last'.raised
              /\ UNCHANGED << timerFields, now >>
        /\ (state = "RUNNING" /\ last'.name \in DOMAIN named_intervals
                /\ last'.ret = FALSE) =>
              UNCHANGED << timerFields, now >>

C10_RejectedPollChangesNothing == [][C10_Step]_vars

\* C10 witness: a poll of a name without boundary on a paused timer returned
\* false and there is still no boundary
C10_Witness ==
    /\ IsPoll(last)
    /\ last.pre.state = "PAUSED"
    /\ last.pre.intervals = 0
    /\ last.ret = FALSE
    /\ state = "PAUSED"
    /\ accumulated > 0
    /\ named_intervals = EmptyDict

\* ---- marks ----

\* C11: since_mark(name) on a timer not stopped since mark(name) returns
\* elapsed() minus the elapsed value at the mark, the RUNNING time since the
\* mark; for a name never marked, or on a STOPPED timer, it returns none; it
\* never raises and changes no timer state.
C11_Step ==
    last'.op = "since_mark" =>
        /\ ~last'.raised
        /\ UNCHANGED << timerFields, now >>
        /\ IF state # "STOPPED" /\ last'.name \in DOMAIN marks
           THEN /\ last'.ret = Some(Elapsed[1] - marks[last'.name])
                /\ last'.ret = Some(runTime - marked[last'.name])
           ELSE last'.ret = None

C11_SinceMarkIsDelta == [][C11_Step]_vars

\* C11 witness: since_mark of a mark set before a pause, asked after the
\* resume: positive, and less than the clock time since the timer started
C11_Witness ==
    /\ last.op = "since_mark"
    /\ state = "RUNNING"
    /\ IsSome(last.ret)
    /\ last.ret[1] >= 2
    /\ marks[last.name] >= 1
    /\ accumulated > marks[last.name]
    /\ now > start_time[1]
    /\ runTime < now - initial_start_time[1]

\* ---- the input dispatcher ----

NoDuplicates(seq) == \A i, j \in 1..Len(seq) : seq[i] = seq[j] => i = j

\* C12: handle(command, source) invokes exactly the callbacks registered
\* under (the scope active when it is called, command), each once and in
\* registration order, and none registered under another scope or command.
C12_Step ==
    ihLast'.op = "handle" =>
        ihLast'.invoked = registered[active_scope][ihLast'.command]

C12_DispatchByActiveScope == [][C12_Step]_allVars

\* C12 witness: NEXT handled while CAPTURE is active invoked nothing, although
\* callbacks sit under (MENU, NEXT) and (CAPTURE, SELECT)
C12_Witness ==
    /\ ihLast.op = "handle"
    /\ ihLast.command = "NEXT"
    /\ ihLast.pre = "CAPTURE"
    /\ ihLast.invoked = << >>
    /\ registered["MENU"]["NEXT"] # << >>
    /\ registered["CAPTURE"]["SELECT"] # << >>

\* C13: register is idempotent: every callback list holds each callback at
\* most once; registering a callback again leaves the list as it was, a new
\* one is appended; so a dispatch invokes each callback once.
C13_Step ==
    /\ \A sc \in Scopes, c \in Commands : NoDuplicates(Lookup(listeners', sc, c))
    /\ ihLast'.op = "register" =>
          LET old == Lookup(listeners, ihLast'.scope, ihLast'.command)
              new == Lookup(listeners', ihLast'.scope, ihLast'.command)
          IN  /\ ihLast'.cb \in Range(old) => new = old
              /\ ihLast'.cb \notin Range(old) => new = Append(old, ihLast'.cb)
              /\ \A sc \in Scopes, c \in Commands :
                    <<sc, c>> # <<ihLast'.scope, ihLast'.command>> =>
                        Lookup(listeners', sc, c) = Lookup(listeners, sc, c)
    /\ ihLast'.op = "handle" => NoDuplicates(ihLast'.invoked)

C13_RegisterIdempotent == [][C13_Step]_allVars

\* C13 witness: the callback just registered is the first of a list of two:
\* it had been registered before, and kept its place
C13_Witness ==
    /\ ihLast.op = "register"
    /\ Len(Lookup(listeners, ihLast.scope, ihLast.command)) = 2
    /\ Lookup(listeners, ihLast.scope, ihLast.command)[1] = ihLast.cb

\* C14: when a callback raises during handle, handle does not raise and the
\* callbacks registered after it for the same (active scope, command) are
\* still invoked, in order, in that dispatch.
C14_Step ==
    ihLast'.op = "handle" =>
        LET cbs == registered[active_scope][ihLast'.command] IN
        /\ ~ihLast'.raised
        /\ \A i \in 1..Len(cbs) :
              Raised(cbs[i]) # None =>
                  /\ Len(ihLast'.invoked) = Len(cbs)
                  /\ \A j \in (i + 1)..Len(cbs) : ihLast'.invoked[j] = cbs[j]

C14_FaultyCallbackIsolated == [][C14_Step]_allVars

\* C14 witness: a dispatch whose first callback raised and whose second ran
C14_Witness ==
    /\ ihLast.op = "handle"
    /\ ~ihLast.raised
    /\ Len(ihLast.invoked) = 2
    /\ Raised(ihLast.invoked[1]) # None
    /\ Raised(ihLast.invoked[2]) = None

\* C15: handle(X, S) with no callback registered for (active scope, X) does
\* not raise, invokes nothing, and leaves active_scope and the listeners
\* table (scope keys, command keys, callback lists) as they were.
C15_Step ==
    (ihLast'.op = "handle" /\ Lookup(listeners, active_scope, ihLast'.command) = << >>) =>
        /\ ~ihLast'.raised
        /\ ihLast'.invoked = << >>
        /\ active_scope' = active_scope
        /\ listeners' = listeners

C15_UnboundCommandChangesNothing == [][C15_Step]_allVars

\* C16: set_scope(scope) changes only active_scope, and nothing when the
\* scope is already active; the listeners table is unchanged, so dispatch
\* after switching away and back finds the same callbacks in the same order.
C16_Step ==
    ihLast'.op = "set_scope" =>
        /\ active_scope' = ihLast'.scope
        /\ listeners' = listeners
        /\ \A sc \in Scopes, c \in Commands :
              Lookup(listeners', sc, c) = registered[sc][c]

C16_SetScopeKeepsBindings == [][C16_Step]_allVars

\* C16 witness: the scope is back on MENU after CAPTURE, and both scopes
\* hold their callbacks
C16_Witness ==
    /\ ihLast.op = "set_scope"
    /\ ihLast.pre = "CAPTURE"
    /\ active_scope = "MENU"
    /\ Lookup(listeners, "MENU", "NEXT") # << >>
    /\ Lookup(listeners, "CAPTURE", "NEXT") # << >>

\* C17: after clear_scope(s), s is not a key of the listeners table, whether
\* or not callbacks were registered under s and whether or not s is active.
C17_ClearedScopeIsNoKey ==
    ihLast.op = "clear_scope" => ihLast.scope \notin DOMAIN listeners

\* ---- the menu cursor ----

\* e is in the list its adjacent elements are taken from
InSiblingList(e) == AdjacencyList(e) # None /\ e \in Range(AdjacencyList(e)[1])

SiblingList(e) == AdjacencyList(e)[1]

\* the sibling k places after e, cyclically
CyclicShift(e, k) ==
    LET l == SiblingList(e)
        i == IndexOf(l, e)[1]
    IN  l[((i - 1 + k) % Len(l)) + 1]

\* C18: increment_element() moves the cursor to the cyclic successor of the
\* current element in its sibling list and decrement_element() to the cyclic
\* predecessor (last -> first, first -> last), for lists of every length >= 1.
C18_CyclicNeighbours ==
    InSiblingList(menuLast.pre) =>
        /\ menuLast.op = "increment_element" =>
              /\ current_element = CyclicShift(menuLast.pre, 1)
              /\ menuLast.raised = None
        /\ menuLast.op = "decrement_element" =>
              /\ current_element = CyclicShift(menuLast.pre, Len(SiblingList(menuLast.pre)) - 1)
              /\ menuLast.raised = None

\* C18 witness: increment_element() on the last of five siblings went to the
\* first, and decrement_element() there went back to the last
C18_Witness ==
    /\ menuLast.op = "decrement_element"
    /\ walk.first = "inc" /\ walk.a = 1 /\ walk.b = 1
    /\ InSiblingList(walk.start)
    /\ Len(SiblingList(walk.start)) = 5
    /\ walk.start = SiblingList(walk.start)[5]
    /\ menuLast.pre = SiblingList(walk.start)[1]
    /\ current_element = walk.start

\* C19: from every starting element, N increment_element() calls followed by
\* N decrement_element() calls, or the reverse, leave the cursor on the
\* starting element.
C19_WalkReturns ==
    (walk.first # "none" /\ walk.a = walk.b) => current_element = walk.start

\* C20: do_action() on an element whose action is submenu moves the cursor to
\* the first child of its submenu list, an element whose parent is the old
\* one; with no submenu children the cursor stays and nothing is raised.
C20_SubmenuEntersOrStays ==
    (menuLast.op = "do_action" /\ Action(menuLast.pre) = "submenu") =>
        IF Submenu(menuLast.pre) # None /\ Submenu(menuLast.pre)[1] # << >>
        THEN /\ current_element = Submenu(menuLast.pre)[1][1]
             /\ current_element # menuLast.pre
             /\ Parent(current_element) = menuLast.pre
             /\ menuLast.raised = None
        ELSE /\ current_element = menuLast.pre
             /\ menuLast.raised = None

\* ---- the menu actions ----

IsDoAction(action) == menuLast.op = "do_action" /\ Action(menuLast.pre) = action

C22_SelectWritesAndReturns ==
    (IsDoAction("selectOption") /\ Tag(menuLast.pre) = "option_item") =>
        LET key == Setting(Parent(menuLast.pre))[1] IN
        /\ menuLast.raised = None
        /\ key \in DOMAIN config
        /\ config[key] = Value(menuLast.pre)[1]
        /\ \A k \in (DOMAIN config \cup DOMAIN menuLast.preConfig) \ {key} :
              /\ k \in DOMAIN config
              /\ k \in DOMAIN menuLast.preConfig
              /\ config[k] = menuLast.preConfig[k]
        /\ current_element = Parent(menuLast.pre)

\* C22 witness: selecting the option pic stored pic under cam_mode, left
\* pic_interval as it was and put the cursor on the Capture Mode element
C22_Witness ==
    /\ IsDoAction("selectOption")
    /\ Value(menuLast.pre) = Some("pic")
    /\ menuLast.preConfig["cam_mode"] = "'pic'"
    /\ config["cam_mode"] = "pic"
    /\ config["pic_interval"] = "5"
    /\ Action(current_element) = "options"

\* C23: do_action() on an element whose action is return moves the cursor to
\* the element's parent and changes no setting, and the call completes, for
\* every element carrying the action, items directly under the root included.
C23_ReturnToParent ==
    IsDoAction("return") =>
        /\ current_element = Parent(menuLast.pre)
        /\ config = menuLast.preConfig
        /\ menuLast.raised = None

\* the calls of a do_action() to the settings, power and system collaborators
CollaboratorCalls ==
    SelectSeq(menuLast.calls, LAMBDA c : c # "print_message")

Stationary == {"display_system_info", "shutdown", "reboot"}

C25_Taken(action) == IsDoAction(action) /\ current_element = menuLast.pre

C26_AdjacencyAndDisplay ==
    (menuLast.op = "init" \/ current_element # menuLast.pre) =>
        /\ InSiblingList(current_element)
        /\ next_element = CyclicShift(current_element, 1)
        /\ previous_element =
              CyclicShift(current_element, Len(SiblingList(current_element)) - 1)
        /\ display = Message(current_element)
        /\ menuLast.op # "init" =>
              /\ menuLast.calls # << >>
              /\ menuLast.calls[Len(menuLast.calls)] = "print_message"

\* ---- the menu tree and its construction ----

\* C27: constructing a Menu raises, and leaves no usable Menu, if the root of
\* the parsed tree has no submenu children, and only then: for every tree
\* whose root has at least one menu_item child construction completes with
\* current_element = default_element = the root's first child.
C27_ConstructionFailsOnlyWhenEmpty ==
    construction # None =>
        LET c == construction[1] IN
        IF FindAll(c.root, "menu_item") # << >>
        THEN /\ c.raised = None
             /\ c.current = Some(FindAll(c.root, "menu_item")[1])
        ELSE c.raised # None

\* the elements of the tree under r that have e among their children
ParentsIn(r, e) == {p \in Under(r) : e \in Built(p)}

\* e reaches r in at most k parent links
RECURSIVE ReachesRoot(_, _, _)
ReachesRoot(e, r, k) ==
    \/ e = r
    \/ k > 0 /\ Parent(e) # e /\ ReachesRoot(Parent(e), r, k - 1)

\* C28: in the MenuElement tree constructed from a definition of menu,
\* menu_item and option_item tags with any action attributes, the root's
\* parent is the root, every other element has exactly one parent and
\* reaches the root by parent links, and no element has both an options list
\* and a submenu list.
C28_TreeShape ==
    construction # None =>
        LET r == construction[1].root IN
        /\ Parent(r) = r
        /\ \A e \in Under(r) \ {r} :
              /\ Cardinality(ParentsIn(r, e)) = 1
              /\ ParentsIn(r, e) = {Parent(e)}
              /\ ReachesRoot(e, r, Cardinality(Under(r)))
        /\ \A e \in Under(r) : ~(Options(e) # None /\ Submenu(e) # None)

\* ---- the buttons ----

\* C29: button edges are never dispatched on their own thread: handle() runs
\* only on the thread of the control loop, so no handle() call or scope
\* switch is under way while the control loop is inside an iteration.
C29_DispatchOnLoopThread ==
    ~(gpioPc \in {"handle", "callbacks"} /\ loopPc \in {"check", "capture"})

\* C30: a NEXT/SELECT button press made while the active scope is s, commands
\* having been stored for s by set_commands, emits the next/select command
\* stored for s, after any sequence of set_scope calls.
C30_PressFollowsScope ==
    (buttonLast.op = "press" /\ buttonLast.stored # None) =>
        buttonLast.command =
            buttonLast.stored[1][IF buttonLast.button = "NEXT" THEN 1 ELSE 2]

\* ---- the stopwatch with reset ----

C33_Step ==
    (ihLast'.op = "handle" /\ active_scope' # active_scope) =>
        LET old == registered[active_scope][ihLast'.command]
            new == registered[active_scope'][ihLast'.command]
        IN  /\ ihLast'.invoked = old
            /\ \A cb \in Range(new) \ Range(old) : cb \notin Range(ihLast'.invoked)

C33_SingleScopePerDispatch == [][C33_Step]_allVars

\* C33 witness: a dispatch under MENU whose callback switched to CAPTURE,
\* where another callback waits for the same command, and did not run
C33_Witness ==
    /\ ihLast.op = "handle"
    /\ ihLast.pre = "MENU"
    /\ active_scope = "CAPTURE"
    /\ ihLast.invoked = << "cb_set_scope" >>
    /\ registered["CAPTURE"][ihLast.command] # << >>
    /\ Range(registered["CAPTURE"][ihLast.command]) \cap Range(ihLast.invoked) = {}

\* ---- the menu over sequences of calls ----

\* C34: after any sequence of increment_element(), decrement_element() and
\* do_action() calls from construction, current_element is not the root and
\* is a member of the sibling list its adjacent elements are taken from.
C34_CursorInSiblingList ==
    /\ current_element # root
    /\ InSiblingList(current_element)

\* C37: after do_action() on a display_system_info element the display shows
\* the system-information screen, and goes on showing it until the next
\* command.
C37_SystemInfoStays ==
    IsDoAction("display_system_info") => display = "system_info"

\* C39: selecting an option O of an options element P and re-entering is a
\* round trip: do_action() on O leaves the cursor on P, and the do_action()
\* on P that follows at once moves the cursor back to O.
C39_SelectThenReenter ==
    (/\ IsDoAction("options")
     /\ menuLast.prior[1] = "do_action"
     /\ Action(menuLast.prior[2]) = "selectOption"
     /\ Tag(menuLast.prior[2]) = "option_item"
     /\ Parent(menuLast.prior[2]) = menuLast.pre) =>
        current_element = menuLast.prior[2]

\* ---- the application ----

Bound == loopPc \notin {"main", "initialize_menu"}

HandledIn(scope, command) ==
    /\ Bound
    /\ ihLast' # ihLast
    /\ ihLast'.op = "handle"
    /\ ihLast'.pre = scope
    /\ ihLast'.command = command

C31_Step ==
    /\ HandledIn("MENU", "NEXT") => current_element' = next_element
    /\ HandledIn("MENU", "SELECT") =>
          menuLast'.op = "do_action" /\ menuLast'.pre = current_element
    /\ (\E c \in {"NEXT", "SELECT"} : HandledIn("CAPTURE", c)) => UNCHANGED menuVars

\* C31: with the bindings of initialize_menu installed, a NEXT handled while
\* the scope is MENU moves the cursor to its next sibling, a SELECT performs
\* the current element's action, and either handled while the scope is
\* CAPTURE leaves the Menu as it was.
C31_MenuCommandsMoveMenu == [][C31_Step]_allVars

\* C32: a STOP_CAPTURE handled during a capture session leaves the scope
\* MENU, and a START_CAPTURE handled while the scope is MENU leaves it CAPTURE.
C32_StopAndStartSwitchScope ==
    (Bound /\ ihLast.op = "handle") =>
        /\ (ihLast.command = "STOP_CAPTURE" /\ ihLast.pre = "CAPTURE" /\ session >= 1) =>
              active_scope = "MENU"
        /\ (ihLast.command = "START_CAPTURE" /\ ihLast.pre = "MENU") =>
              active_scope = "CAPTURE"

C36_OneStopCallback ==
    session >= 1 =>
        /\ Len(Lookup(listeners, "CAPTURE", "STOP_CAPTURE")) = 1
        /\ (ihLast.op = "handle" /\ ihLast.command = "STOP_CAPTURE"
               /\ ihLast.pre = "CAPTURE") => Len(ihLast.invoked) = 1

\* ---- the pan servo ----

\* C38: every rotate(speed, direction, degrees) with speed > 0 and
\* degrees > 0, the first and every later one on the same PanServo, keeps
\* the servo driven at the requested speed for the computed duration counted
\* from the call, and then halts it.
C38_RotatesForDuration ==
    (rotation.speed > 0 /\ rotation.degrees > 0) =>
        /\ servoPc = "rotating" =>
              servo_speed = rotation.speed /\ now <= rotation.at + rotation.duration
        /\ servoPc = "idle" =>
              servo_speed = 0 /\ rotation.halted = Some(rotation.at + rotation.duration)

====
